---- MODULE Spec2Model ----
(***************************************************************************)
(* Model of simple_eval (src/main.cpp): the tokenizer, the infix-to-postfix *)
(* rewrite (eval::to_postfix), the postfix evaluation (eval::solve) and the *)
(* read loop of main() that drives them, one line of text at a time.        *)
(*                                                                          *)
(* A string is a sequence of one-character strings.  A double is modelled   *)
(* as an exact fraction <<n, d>> in lowest terms with d > 0; d = 0 encodes  *)
(* the IEEE special values (<<1,0>> = +inf, <<-1,0>> = -inf, <<0,0>> = NaN).*)
(* Rounding and the sign of zero are not modelled.                          *)
(***************************************************************************)
EXTENDS Integers, Sequences, FiniteSets, TLC

(***************************************************************************)
(* Bounds of the model.                                                     *)
(***************************************************************************)
\* longest line typed at the prompt, over the whole character set
MaxLineLen == 4
\* longest line typed at the prompt, over digits, operators and brackets
MaxExprLen == 5
\* most operators in a bracket-free expression n1 op1 n2 ... opk n(k+1)
MaxOps == 3
\* longest well-formed bracketed expression, in characters
MaxNestedLen == 7
\* longest token list handed to eval(const token_list&)
MaxTokens == 4
\* largest operand stack left behind by a read or pop of an empty stack
MaxGarbage == 2

(***************************************************************************)
(* Characters.                                                              *)
(***************************************************************************)
Digits == {"0", "1", "2", "3", "4", "5", "6", "7", "8", "9"}

isdigit(c) == c \in Digits

isspace(c) == c \in {" ", "\t", "\n", "\r", "\f"}

DigitVal(c) ==
  CASE c = "0" -> 0 [] c = "1" -> 1 [] c = "2" -> 2 [] c = "3" -> 3
    [] c = "4" -> 4 [] c = "5" -> 5 [] c = "6" -> 6 [] c = "7" -> 7
    [] c = "8" -> 8 [] c = "9" -> 9

SeqsUpTo(S, n) == UNION {[1..k -> S] : k \in 0..n}

(***************************************************************************)
(* double: exact fractions and the IEEE special values.                     *)
(***************************************************************************)
Abs(n) == IF n < 0 THEN -n ELSE n

Sign(n) == IF n < 0 THEN -1 ELSE IF n > 0 THEN 1 ELSE 0

RECURSIVE Gcd(_, _)
Gcd(a, b) == IF b = 0 THEN a ELSE Gcd(b, a % b)

RECURSIVE Pow10(_)
Pow10(k) == IF k = 0 THEN 1 ELSE 10 * Pow10(k - 1)

\* the fraction n/d (d # 0) in lowest terms with a positive denominator
Frac(n, d) ==
  LET g == Gcd(Abs(n), Abs(d))
  IN  <<Sign(d) * (n \div g), Abs(d) \div g>>

Zero == <<0, 1>>
NaN == <<0, 0>>
IsNaN(x) == x = NaN
IsInf(x) == x[2] = 0 /\ x[1] # 0

\* x + y
DAdd(x, y) ==
  IF IsNaN(x) \/ IsNaN(y) THEN NaN
  ELSE IF IsInf(x) /\ IsInf(y) THEN (IF x = y THEN x ELSE NaN)
  ELSE IF IsInf(x) THEN x
  ELSE IF IsInf(y) THEN y
  ELSE Frac(x[1] * y[2] + y[1] * x[2], x[2] * y[2])

DNeg(x) == <<-x[1], x[2]>>

\* x - y
DSub(x, y) == DAdd(x, DNeg(y))

\* x * y
DMul(x, y) ==
  IF IsNaN(x) \/ IsNaN(y) THEN NaN
  ELSE IF IsInf(x) \/ IsInf(y)
       THEN (IF x[1] = 0 \/ y[1] = 0 THEN NaN ELSE <<Sign(x[1]) * Sign(y[1]), 0>>)
  ELSE Frac(x[1] * y[1], x[2] * y[2])

\* x / y
DDiv(x, y) ==
  IF IsNaN(x) \/ IsNaN(y) THEN NaN
  ELSE IF IsInf(x)
       THEN (IF IsInf(y) THEN NaN
             ELSE <<Sign(x[1]) * (IF y[1] < 0 THEN -1 ELSE 1), 0>>)
  ELSE IF IsInf(y) THEN Zero
  ELSE IF y[1] = 0 THEN (IF x[1] = 0 THEN NaN ELSE <<Sign(x[1]), 0>>)
  ELSE Frac(x[1] * y[2], x[2] * y[1])

\* value of a run of digits
RECURSIVE DigitsVal(_)
DigitsVal(s) ==
  IF s = <<>> THEN 0 ELSE 10 * DigitsVal(SubSeq(s, 1, Len(s) - 1)) + DigitVal(s[Len(s)])

\* index of the first "." of s at or after position from, Len(s) + 1 when none
RECURSIVE NextDot(_, _)
NextDot(s, from) ==
  IF from > Len(s) THEN Len(s) + 1
  ELSE IF s[from] = "." THEN from
  ELSE NextDot(s, from + 1)

\* atof on a text of digits and decimal points: the digits before the first
\* point, then the digits up to a second point; the conversion stops there
atof(s) ==
  LET p == NextDot(s, 1)
      q == NextDot(s, p + 1)
      whole == SubSeq(s, 1, p - 1)
      frac == SubSeq(s, p + 1, q - 1)
  IN  Frac(DigitsVal(whole) * Pow10(Len(frac)) + DigitsVal(frac), Pow10(Len(frac)))

(***************************************************************************)
(* token                                                                    *)
(***************************************************************************)
token_type ==
  {"unknown", "number", "open_bracket", "close_bracket",
   "op_add", "op_sub", "op_mul", "op_div"}

\* a value-initialised token: token t{} and token::clear()
clear == [type |-> "unknown", text |-> <<>>, number |-> Zero]

(***************************************************************************)
(* tokenizer                                                                *)
(***************************************************************************)
is_value(c) == isdigit(c) \/ c = "."

tokenizer_is_operator(c) == c \in {"+", "-", "*", "/", "(", ")"}

\* the chain of ifs that gives an operator or bracket character its type
OperatorType(rune) ==
  CASE rune = "+" -> "op_add"
    [] rune = "-" -> "op_sub"
    [] rune = "*" -> "op_mul"
    [] rune = "/" -> "op_div"
    [] rune = "(" -> "open_bracket"
    [] rune = ")" -> "close_bracket"

\* the pending token as it is pushed: a number gets its value from its text
Finalized(t) == IF t.type = "number" THEN [t EXCEPT !.number = atof(t.text)] ELSE t

\* a push that does not look at the type of the pending token
PushPendingAlways(tl, t) == Append(tl, Finalized(t))

\* if (t.type != unknown) { if (t.type == number) t.number = atof(..); push_back(t); }
PushPending(tl, t) == IF t.type # "unknown" THEN Append(tl, Finalized(t)) ELSE tl

\* the counting loop of verify_tokenlist over tl[k..]; c = <<numbers,
\* operations, open brackets, close brackets, error>>
RECURSIVE CountTokens(_, _, _)
CountTokens(tl, k, c) ==
  IF k > Len(tl) THEN c
  ELSE LET ty == tl[k].type
       IN  CountTokens(tl, k + 1,
             CASE ty = "number" -> [c EXCEPT ![1] = @ + 1]
               [] ty = "open_bracket" -> [c EXCEPT ![3] = @ + 1]
               [] ty = "close_bracket" -> [c EXCEPT ![4] = @ + 1]
               [] ty \in {"op_add", "op_sub", "op_mul", "op_div"} -> [c EXCEPT ![2] = @ + 1]
               [] OTHER -> [c EXCEPT ![5] = TRUE])

\* a verify_tokenlist that does not compare the bracket counts
verify_tokenlist_no_brackets(tl, err) ==
  IF err THEN TRUE
  ELSE LET c == CountTokens(tl, 1, <<0, 0, 0, 0, FALSE>>)
       IN  c[5] \/ c[1] # c[2] + 1

\* the error flag after verify_tokenlist, from the tokens and the flag before
verify_tokenlist(tl, err) ==
  IF err THEN TRUE
  ELSE LET c == CountTokens(tl, 1, <<0, 0, 0, 0, FALSE>>)
       IN  c[5] \/ c[3] # c[4] \/ c[1] # c[2] + 1

\* string_strip: drop leading, then trailing, whitespace
RECURSIVE StripLeft(_)
StripLeft(s) == IF Len(s) > 0 /\ isspace(s[1]) THEN StripLeft(Tail(s)) ELSE s

RECURSIVE StripRight(_)
StripRight(s) ==
  IF Len(s) > 0 /\ isspace(s[Len(s)]) THEN StripRight(SubSeq(s, 1, Len(s) - 1)) ELSE s

string_strip(s) == StripRight(StripLeft(s))

(***************************************************************************)
(* eval: the predicates on tokens                                           *)
(***************************************************************************)
precedence(tk) ==
  CASE tk.type \in {"op_add", "op_sub"} -> 10
    [] tk.type \in {"op_mul", "op_div"} -> 20
    [] OTHER -> -1

is_number(tk) == tk.type = "number"

eval_is_operator(tk) == tk.type \in {"op_add", "op_sub", "op_mul", "op_div"}

is_open_bracket(tk) == tk.type = "open_bracket"

is_close_bracket(tk) == tk.type = "close_bracket"

is_bracket(tk) == is_open_bracket(tk) \/ is_close_bracket(tk)

\* a check that looks for close brackets only
check_infix_for_close_brackets(tl) == \E k \in 1..Len(tl) : is_close_bracket(tl[k])

\* true if a bracket is found
check_infix_for_brackets(tl) == \E k \in 1..Len(tl) : is_bracket(tl[k])

(***************************************************************************)
(* eval::to_postfix: a stack is a sequence whose last element is the top.   *)
(* Each operator below returns the stack and the output it leaves.          *)
(***************************************************************************)
Top(st) == st[Len(st)]

Pop(st) == SubSeq(st, 1, Len(st) - 1)

SO(st, out) == [op_stack |-> st, output |-> out]

\* while (not op_stack.empty()) { output.push_back(op_stack.top()); op_stack.pop(); }
RECURSIVE PopAll(_, _)
PopAll(st, out) == IF st = <<>> THEN out ELSE PopAll(Pop(st), Append(out, Top(st)))

\* the textbook rule: pop only the operators that bind at least as tightly
RECURSIVE PopWhileNotLower(_, _, _)
PopWhileNotLower(term, st, out) ==
  IF st # <<>> /\ eval_is_operator(Top(st)) /\ precedence(Top(st)) >= precedence(term)
  THEN PopWhileNotLower(term, Pop(st), Append(out, Top(st)))
  ELSE SO(Append(st, term), out)

OperatorTokenTextbook(term, st, out) == PopWhileNotLower(term, st, out)

\* current token is the operator
OperatorToken(term, st, out) ==
  IF st = <<>> THEN SO(Append(st, term), out)
  ELSE IF is_bracket(Top(st)) THEN SO(Append(st, term), out)
  ELSE IF precedence(term) > precedence(Top(st)) THEN SO(Append(st, term), out)
  ELSE SO(<<term>>, PopAll(st, out))

\* current token is the close bracket
RECURSIVE CloseBracketToken(_, _)
CloseBracketToken(st, out) ==
  IF st = <<>> THEN SO(st, out)
  ELSE IF is_open_bracket(Top(st)) THEN SO(Pop(st), out)
  ELSE CloseBracketToken(Pop(st), IF ~is_bracket(Top(st)) THEN Append(out, Top(st)) ELSE out)

\* a finalization that throws the brackets left on the stack away
RECURSIVE FinalizationDroppingBrackets(_, _)
FinalizationDroppingBrackets(st, out) ==
  IF st = <<>> THEN out
  ELSE FinalizationDroppingBrackets(Pop(st),
         IF is_bracket(Top(st)) THEN out ELSE Append(out, Top(st)))

\* finalization: whatever is left on the stack goes to the output
Finalization(st, out) == PopAll(st, out)

\* one pass of the loop over the input, for the token term: the stack, the
\* output and whether the loop was left by error = true; break
PostfixToken(term, st, out) ==
  IF is_number(term) THEN [so |-> SO(st, Append(out, term)), bad |-> FALSE]
  ELSE IF eval_is_operator(term) THEN [so |-> OperatorToken(term, st, out), bad |-> FALSE]
  ELSE IF is_open_bracket(term) THEN [so |-> SO(Append(st, term), out), bad |-> FALSE]
  ELSE IF is_close_bracket(term) THEN [so |-> CloseBracketToken(st, out), bad |-> FALSE]
  ELSE [so |-> SO(st, out), bad |-> TRUE]

(***************************************************************************)
(* eval::solve                                                              *)
(***************************************************************************)
\* the switch on term.type
Apply(ty, x, y) ==
  CASE ty = "op_add" -> DAdd(x, y)
    [] ty = "op_sub" -> DSub(x, y)
    [] ty = "op_mul" -> DMul(x, y)
    [] ty = "op_div" -> DDiv(x, y)

NumberToken(v) == [type |-> "number", text |-> <<>>, number |-> v]

\* what a read or a pop of an empty operand stack may leave behind
GarbageNumbers == {Zero, <<1, 1>>}

GarbageStacks == SeqsUpTo({NumberToken(v) : v \in GarbageNumbers}, MaxGarbage)

\* the outcomes of one pass of solve's loop for the token term: the operand
\* stack, whether the loop was left by error = true; break, and whether the
\* process died.  top() and pop() of an empty stack are undefined: any
\* stack, or the end of the process, may follow.
SolveToken(term, st) ==
  IF is_number(term) THEN {[nums |-> Append(st, term), bad |-> FALSE, crashed |-> FALSE]}
  ELSE IF eval_is_operator(term)
  THEN IF Len(st) >= 2
       THEN LET y == Top(st).number
                x == Top(Pop(st)).number
            IN  {[nums |-> Append(Pop(Pop(st)), NumberToken(Apply(term.type, x, y))),
                  bad |-> FALSE, crashed |-> FALSE]}
       ELSE {[nums |-> g, bad |-> FALSE, crashed |-> c] : g \in GarbageStacks, c \in BOOLEAN}
  ELSE {[nums |-> st, bad |-> TRUE, crashed |-> FALSE]}

\* this->result = nums.top().number, undefined on an empty stack
ResultOf(st) ==
  IF st # <<>> THEN {[result |-> Top(st).number, crashed |-> FALSE]}
  ELSE {[result |-> v, crashed |-> c] : v \in GarbageNumbers, c \in BOOLEAN}

(***************************************************************************)
(* The program state.                                                       *)
(*   pc         where main() stands                                         *)
(*   console    the last thing written to cout                              *)
(*   src, tk_tokens, tk_error      the members of tokenizer tk              *)
(*   pos, t                        parse(): the next rune of src, token t   *)
(*   ev_tokens, ev_error, result   the members of eval ev                   *)
(*   input, ipos, output, op_stack to_postfix(): its locals and the next    *)
(*                                 term of input                            *)
(*   nums, spos                    solve(): its stack and the next term     *)
(***************************************************************************)
VARIABLES pc, console, src, tk_tokens, tk_error, pos, t,
          ev_tokens, ev_error, result, input, ipos, output, op_stack, nums, spos

vars == <<pc, console, src, tk_tokens, tk_error, pos, t,
          ev_tokens, ev_error, result, input, ipos, output, op_stack, nums, spos>>

tk_vars == <<src, tk_tokens, tk_error, pos, t>>

ev_vars == <<ev_tokens, ev_error, result>>

postfix_vars == <<input, ipos, output, op_stack>>

solve_vars == <<nums, spos>>

\* no tokenizer and no eval alive: the state between two lines
NoObjects ==
  /\ src = <<>> /\ tk_tokens = <<>> /\ tk_error = FALSE /\ pos = 1 /\ t = clear
  /\ ev_tokens = <<>> /\ ev_error = FALSE /\ result = Zero
  /\ input = <<>> /\ ipos = 1 /\ output = <<>> /\ op_stack = <<>>
  /\ nums = <<>> /\ spos = 1

\* main() has written the banner and the first prompt
Init == pc = "getline" /\ console = "(expr): " /\ NoObjects

(***************************************************************************)
(* main(): getline, string_strip, and tokenizer tk(line) for a line that is *)
(* not empty; an empty line ends the loop.                                  *)
(***************************************************************************)
ReadLine(lines) ==
  /\ pc = "getline"
  /\ \E line \in lines :
       LET stripped == string_strip(line)
       IN  IF stripped = <<>>
           THEN pc' = "exit" /\ UNCHANGED tk_vars
           ELSE /\ pc' = "parse"
                /\ src' = stripped
                /\ tk_tokens' = <<>>
                /\ tk_error' = FALSE
                /\ pos' = 1
                /\ t' = clear
  /\ UNCHANGED <<console, ev_vars, postfix_vars, solve_vars>>

(***************************************************************************)
(* tokenizer::parse(): one pass of the loop over the runes of src.          *)
(***************************************************************************)
ParseRune ==
  /\ pc = "parse"
  /\ pos <= Len(src)
  /\ LET rune == src[pos]
         more == IF pos < Len(src) THEN "parse" ELSE "parse_end"
     IN  IF isspace(rune)
         THEN pc' = more /\ UNCHANGED <<t, tk_tokens, tk_error>>
         ELSE IF is_value(rune)
         THEN /\ t' = [t EXCEPT !.type = "number", !.text = Append(@, rune)]
              /\ pc' = more
              /\ UNCHANGED <<tk_tokens, tk_error>>
         ELSE IF tokenizer_is_operator(rune)
         THEN /\ tk_tokens' = Append(PushPending(tk_tokens, t),
                                     [clear EXCEPT !.type = OperatorType(rune),
                                                   !.text = <<rune>>])
              /\ t' = clear
              /\ pc' = more
              /\ UNCHANGED tk_error
         ELSE /\ tk_error' = TRUE
              /\ pc' = "parse_end"
              /\ UNCHANGED <<t, tk_tokens>>
  /\ pos' = pos + 1
  /\ UNCHANGED <<console, src, ev_vars, postfix_vars, solve_vars>>

\* an end of parse() that throws the pending token away after error = true
ParseEndDroppingPending ==
  /\ pc = "parse_end"
  /\ tk_tokens' = IF tk_error THEN tk_tokens ELSE PushPending(tk_tokens, t)
  /\ t' = Finalized(t)
  /\ tk_error' = verify_tokenlist(tk_tokens', tk_error)
  /\ pc' = "parsed"
  /\ UNCHANGED <<console, src, pos, ev_vars, postfix_vars, solve_vars>>

\* after the loop: the pending token is pushed, then verify_tokenlist()
ParseEnd ==
  /\ pc = "parse_end"
  /\ tk_tokens' = PushPending(tk_tokens, t)
  /\ t' = Finalized(t)
  /\ tk_error' = verify_tokenlist(tk_tokens', tk_error)
  /\ pc' = "parsed"
  /\ UNCHANGED <<console, src, pos, ev_vars, postfix_vars, solve_vars>>

(***************************************************************************)
(* main(): on a tokenizer error the message and the next line; otherwise    *)
(* eval ev(tk) and the entry of ev.solve(), which enters to_postfix().      *)
(***************************************************************************)
StartPostfix(tl) ==
  /\ ev_tokens' = tl
  /\ ev_error' = FALSE
  /\ result' = Zero
  /\ input' = tl
  /\ ipos' = 1
  /\ output' = <<>>
  /\ op_stack' = <<>>
  /\ pc' = IF tl = <<>> THEN "finalization" ELSE "to_postfix"

AfterParse ==
  /\ pc = "parsed"
  /\ IF tk_error
     THEN /\ console' = "-- parsing error --"
          /\ pc' = "loop"
          /\ UNCHANGED <<ev_vars, postfix_vars>>
     ELSE /\ StartPostfix(tk_tokens)
          /\ UNCHANGED console
  /\ UNCHANGED <<tk_vars, solve_vars>>

\* eval(const token_list&) on a token list of the caller's, then solve()
EvalTokenList(lists) ==
  /\ pc = "getline"
  /\ \E tl \in lists : StartPostfix(tl)
  /\ UNCHANGED <<console, tk_vars, solve_vars>>

(***************************************************************************)
(* eval::to_postfix()                                                       *)
(***************************************************************************)
\* one pass of the loop over input
PostfixTerm ==
  /\ pc = "to_postfix"
  /\ ipos <= Len(input)
  /\ LET r == PostfixToken(input[ipos], op_stack, output)
     IN  /\ op_stack' = r.so.op_stack
         /\ output' = r.so.output
         /\ ev_error' = (ev_error \/ r.bad)
         /\ pc' = IF r.bad \/ ipos = Len(input) THEN "finalization" ELSE "to_postfix"
  /\ ipos' = ipos + 1
  /\ UNCHANGED <<console, tk_vars, ev_tokens, result, input, solve_vars>>

\* the finalization, tokens.assign(output), the check for brackets, and back
\* in solve(): if (error) return; stack nums{}
PostfixEnd ==
  /\ pc = "finalization"
  /\ output' = Finalization(op_stack, output)
  /\ op_stack' = <<>>
  /\ ev_tokens' = output'
  /\ ev_error' = (ev_error \/ check_infix_for_brackets(ev_tokens'))
  /\ nums' = <<>>
  /\ spos' = 1
  /\ pc' = IF ev_error' THEN "solved"
           ELSE IF ev_tokens' = <<>> THEN "solve_end" ELSE "solve"
  /\ UNCHANGED <<console, tk_vars, result, input, ipos>>

(***************************************************************************)
(* eval::solve()                                                            *)
(***************************************************************************)
\* one pass of the loop over the postfix tokens
SolveTerm ==
  /\ pc = "solve"
  /\ spos <= Len(ev_tokens)
  /\ \E r \in SolveToken(ev_tokens[spos], nums) :
       /\ nums' = r.nums
       /\ ev_error' = (ev_error \/ r.bad)
       /\ pc' = IF r.crashed THEN "crashed"
                ELSE IF r.bad \/ spos = Len(ev_tokens) THEN "solve_end" ELSE "solve"
  /\ spos' = spos + 1
  /\ UNCHANGED <<console, tk_vars, ev_tokens, result, postfix_vars>>

\* this->result = nums.top().number
SolveEnd ==
  /\ pc = "solve_end"
  /\ \E r \in ResultOf(nums) :
       /\ result' = r.result
       /\ pc' = IF r.crashed THEN "crashed" ELSE "solved"
  /\ UNCHANGED <<console, tk_vars, ev_tokens, ev_error, postfix_vars, solve_vars>>

(***************************************************************************)
(* main(): the evaluator's message or the result, then the next prompt.     *)
(***************************************************************************)
Report ==
  /\ pc = "solved"
  /\ console' = IF ev_error THEN "-- error --" ELSE "(result): "
  /\ pc' = "loop"
  /\ UNCHANGED <<tk_vars, ev_vars, postfix_vars, solve_vars>>

\* while (not line.empty()): tk and ev are gone, the prompt is written again
NextPrompt ==
  /\ pc = "loop"
  /\ pc' = "getline"
  /\ console' = "(expr): "
  /\ src' = <<>> /\ tk_tokens' = <<>> /\ tk_error' = FALSE /\ pos' = 1 /\ t' = clear
  /\ ev_tokens' = <<>> /\ ev_error' = FALSE /\ result' = Zero
  /\ input' = <<>> /\ ipos' = 1 /\ output' = <<>> /\ op_stack' = <<>>
  /\ nums' = <<>> /\ spos' = 1

(***************************************************************************)
(* The lines and token lists the program is run on.                         *)
(***************************************************************************)
AllChars == {"0", "1", ".", "+", "-", "*", "/", "(", ")", " ", "#"}

ExprChars == {"1", "2", "+", "-", "*", "/", "(", ")"}

OperandChars == {"2", "3", "4"}

OperatorChars == {"+", "-", "*"}

\* every line of at most MaxLineLen characters
AnyLines == SeqsUpTo(AllChars, MaxLineLen)

\* every line of at most MaxExprLen digits, operators and brackets
ExprLines == SeqsUpTo(ExprChars, MaxExprLen)

\* n1 op1 n2 ... opk n(k+1), k <= MaxOps
BracketFreeLines ==
  UNION {{[p \in 1..(2 * k + 1) |->
             IF p % 2 = 1 THEN ns[(p + 1) \div 2] ELSE os[p \div 2]] :
           ns \in [1..(k + 1) -> OperandChars], os \in [1..k -> OperatorChars]} :
         k \in 0..MaxOps}

\* E ::= NUM | E op E | ( E ), derivations of height at most h, at most
\* MaxNestedLen characters
RECURSIVE WellFormed(_)
WellFormed(h) ==
  IF h = 0 THEN {<<d>> : d \in OperandChars}
  ELSE LET W == WellFormed(h - 1)
       IN  W \cup {<<"(">> \o e \o <<")">> : e \in {w \in W : Len(w) + 2 <= MaxNestedLen}}
             \cup {ab[1] \o <<o>> \o ab[2] :
                     ab \in {x \in W \X W : Len(x[1]) + Len(x[2]) + 1 <= MaxNestedLen},
                     o \in OperatorChars}

NestedLines == WellFormed(3)

CharToken(c) ==
  IF is_value(c) THEN [type |-> "number", text |-> <<c>>, number |-> atof(<<c>>)]
  ELSE [clear EXCEPT !.type = OperatorType(c), !.text = <<c>>]

\* the tokens of the lists handed to eval(const token_list&)
ListTokens == {CharToken(c) : c \in {"1", "2", "+", "*", "(", ")"}} \cup {clear}

TokenLists == SeqsUpTo(ListTokens, MaxTokens)

(***************************************************************************)
(* Specifications: main() on each set of lines, and eval on token lists.    *)
(***************************************************************************)
ReadAnyLine == ReadLine(AnyLines)

ReadExprLine == ReadLine(ExprLines)

ReadBracketFreeLine == ReadLine(BracketFreeLines)

ReadNestedLine == ReadLine(NestedLines)

EvalAnyTokenList == EvalTokenList(TokenLists)

Evaluate == PostfixTerm \/ PostfixEnd \/ SolveTerm \/ SolveEnd

Main == ParseRune \/ ParseEnd \/ AfterParse \/ Evaluate \/ Report \/ NextPrompt

NextLex == ReadAnyLine \/ Main

Next == ReadExprLine \/ Main

NextBracketFree == ReadBracketFreeLine \/ Main

NextNested == ReadNestedLine \/ Main

NextTokenList == EvalAnyTokenList \/ Evaluate

SpecLex == Init /\ [][NextLex]_vars

Spec == Init /\ [][Next]_vars

SpecBracketFree == Init /\ [][NextBracketFree]_vars

SpecNested == Init /\ [][NextNested]_vars

SpecTokenList == Init /\ [][NextTokenList]_vars

(***************************************************************************)
(* Vocabulary of the properties.                                            *)
(***************************************************************************)
OperatorTypes == {"op_add", "op_sub", "op_mul", "op_div"}

\* how many tokens of tl have a type in types
CountOf(tl, types) == Cardinality({k \in 1..Len(tl) : tl[k].type \in types})

IsBadChar(c) ==
  /\ c \notin {" ", "\t", "\n", "\r", "\f"}
  /\ c \notin Digits \cup {"."}
  /\ c \notin {"+", "-", "*", "/", "(", ")"}

HasBadChar(s) == \E k \in 1..Len(s) : IsBadChar(s[k])

\* the place of the first character that is no part of the language
FirstBad(s) == CHOOSE k \in 1..Len(s) : IsBadChar(s[k]) /\ \A m \in 1..(k - 1) : ~IsBadChar(s[m])

NotSpace(c) == c \notin {" ", "\t", "\n", "\r", "\f"}

WithoutSpaces(s) == SelectSeq(s, NotSpace)

\* the texts of the tokens of tl, one after the other
RECURSIVE TextOf(_)
TextOf(tl) == IF tl = <<>> THEN <<>> ELSE TextOf(Pop(tl)) \o Top(tl).text

\* s without the digits and points it ends with
RECURSIVE WithoutLastNumber(_)
WithoutLastNumber(s) ==
  IF s # <<>> /\ Top(s) \in Digits \cup {"."} THEN WithoutLastNumber(Pop(s)) ELSE s

\* what was read before the first bad character, spaces left out
ReadBeforeBad(s) == WithoutSpaces(SubSeq(s, 1, FirstBad(s) - 1))

HasBracket(tl) == CountOf(tl, {"open_bracket", "close_bracket"}) > 0

RECURSIVE Reverse(_)
Reverse(s) == IF s = <<>> THEN <<>> ELSE <<Top(s)>> \o Reverse(Pop(s))

\* some prefix of tl holds more close brackets than open brackets
ClosesBeforeOpens(tl) ==
  \E n \in 1..Len(tl) :
    CountOf(SubSeq(tl, 1, n), {"close_bracket"}) > CountOf(SubSeq(tl, 1, n), {"open_bracket"})

\* the stage of solve() that follows to_postfix()
AfterPostfix == pc \in {"solve", "solve_end", "solved", "crashed"}

(***************************************************************************)
(* C1: after parse() the tokenizer's error flag is unset exactly when every *)
(* character that is not whitespace is a digit, a point, an operator or a   *)
(* bracket, the open and close brackets of the tokens are equally many and  *)
(* the numbers are one more than the operators.                             *)
(***************************************************************************)
C1_ErrorFlag ==
  pc = "parsed" =>
    (~tk_error <=>
       /\ ~HasBadChar(src)
       /\ CountOf(tk_tokens, {"open_bracket"}) = CountOf(tk_tokens, {"close_bracket"})
       /\ CountOf(tk_tokens, {"number"}) = CountOf(tk_tokens, OperatorTypes) + 1)

\* a line of good characters and one more number than operators, refused
\* for its brackets alone
C1_RefusedForBrackets ==
  /\ pc = "parsed"
  /\ tk_error
  /\ ~HasBadChar(src)
  /\ CountOf(tk_tokens, {"number"}) = CountOf(tk_tokens, OperatorTypes) + 1
  /\ CountOf(tk_tokens, {"open_bracket"}) # CountOf(tk_tokens, {"close_bracket"})

(***************************************************************************)
(* C4, as stated: on a character that is no part of the language parse()    *)
(* sets the error flag, reads no further, and the number pending at that    *)
(* point is not appended to the tokens.                                     *)
(***************************************************************************)
C4_PendingNotAppended ==
  (pc = "parsed" /\ HasBadChar(src)) =>
    /\ tk_error
    /\ pos = FirstBad(src) + 1
    /\ TextOf(tk_tokens) = WithoutLastNumber(ReadBeforeBad(src))

(***************************************************************************)
(* C4, amended: on a character that is no part of the language parse() sets *)
(* the error flag and reads no further; the tokens are those of the         *)
(* characters before it, the number pending at that point included.         *)
(***************************************************************************)
C4_PendingAppended ==
  (pc = "parsed" /\ HasBadChar(src)) =>
    /\ tk_error
    /\ pos = FirstBad(src) + 1
    /\ TextOf(tk_tokens) = ReadBeforeBad(src)

\* a number was pending when the bad character came, and more follows it
C4_BadCharAfterNumber ==
  /\ pc = "parsed"
  /\ HasBadChar(src)
  /\ FirstBad(src) < Len(src)
  /\ ReadBeforeBad(src) # WithoutLastNumber(ReadBeforeBad(src))
  /\ tk_tokens # <<>>
  /\ Top(tk_tokens).type = "number"

(***************************************************************************)
(* C8: at every step of parse() and after it the tokenizer's tokens hold no *)
(* token of type unknown.                                                   *)
(***************************************************************************)
C8_NoUnknownToken == \A k \in 1..Len(tk_tokens) : tk_tokens[k].type # "unknown"

\* two operators or brackets in a row: the second came with nothing pending
C8_NothingPending ==
  /\ pc = "parse"
  /\ Len(tk_tokens) >= 2
  /\ Top(tk_tokens).type # "number"
  /\ Top(Pop(tk_tokens)).type # "number"
  /\ t = clear

(***************************************************************************)
(* Reference values: the value of an expression under the usual rules,      *)
(* multiplication before addition and subtraction, equal operators from     *)
(* left to right, a bracketed expression as one operand.                    *)
(***************************************************************************)
\* n1 op1 n2 ... as a sum of products: sum holds the terms closed so far,
\* prod the product being built, p the place of the next operator
RECURSIVE SumOfProducts(_, _, _, _)
SumOfProducts(s, p, sum, prod) ==
  IF p > Len(s) THEN sum + prod
  ELSE IF s[p] = "*" THEN SumOfProducts(s, p + 2, sum, prod * DigitVal(s[p + 1]))
  ELSE IF s[p] = "+" THEN SumOfProducts(s, p + 2, sum + prod, DigitVal(s[p + 1]))
  ELSE SumOfProducts(s, p + 2, sum + prod, -DigitVal(s[p + 1]))

BracketFreeValue(s) == SumOfProducts(s, 2, 0, DigitVal(s[1]))

\* recursive descent over s from place p: <<value, place after>>
RECURSIVE GroupedExpr(_, _), GroupedExprRest(_, _, _), GroupedTerm(_, _)
RECURSIVE GroupedTermRest(_, _, _), GroupedFactor(_, _)
GroupedFactor(s, p) ==
  IF s[p] = "(" THEN LET e == GroupedExpr(s, p + 1) IN <<e[1], e[2] + 1>>
  ELSE <<DigitVal(s[p]), p + 1>>

GroupedTermRest(s, p, acc) ==
  IF p <= Len(s) /\ s[p] = "*"
  THEN LET f == GroupedFactor(s, p + 1) IN GroupedTermRest(s, f[2], acc * f[1])
  ELSE <<acc, p>>

GroupedTerm(s, p) == LET f == GroupedFactor(s, p) IN GroupedTermRest(s, f[2], f[1])

GroupedExprRest(s, p, acc) ==
  IF p <= Len(s) /\ s[p] \in {"+", "-"}
  THEN LET u == GroupedTerm(s, p + 1)
       IN  GroupedExprRest(s, u[2], IF s[p] = "+" THEN acc + u[1] ELSE acc - u[1])
  ELSE <<acc, p>>

GroupedExpr(s, p) == LET u == GroupedTerm(s, p) IN GroupedExprRest(s, u[2], u[1])

GroupedValue(s) == GroupedExpr(s, 1)[1]

(***************************************************************************)
(* C2: a bracket-free expression n1 op1 n2 ... opk n(k+1) over + - * is     *)
(* evaluated without error to its value under the usual precedence,         *)
(* multiplication before addition and subtraction, from left to right.      *)
(***************************************************************************)
C2_StandardPrecedence ==
  pc = "solved" => (~ev_error /\ result = <<BracketFreeValue(src), 1>>)

(***************************************************************************)
(* C3: a well-formed expression with properly nested brackets is evaluated  *)
(* without error to the value it has when every bracketed sub-expression is *)
(* taken as one operand.                                                    *)
(***************************************************************************)
C3_Grouping ==
  pc = "solved" => (~ev_error /\ result = <<GroupedValue(src), 1>>)

(***************************************************************************)
(* C5: for a line the tokenizer accepts and whose rewrite sets no error,    *)
(* solve() finds at least two values on the operand stack each time it      *)
(* comes to an operator.                                                    *)
(***************************************************************************)
C5_TwoOperands ==
  (pc = "solve" /\ ~tk_error /\ ~ev_error /\ eval_is_operator(ev_tokens[spos])) =>
    Len(nums) >= 2

(***************************************************************************)
(* C6: once to_postfix() is over, a bracket among the evaluator's tokens    *)
(* means the error flag is set and solve() has evaluated nothing; with the  *)
(* flag unset the tokens hold no bracket.                                   *)
(***************************************************************************)
C6_NoBracketInPostfix ==
  (AfterPostfix /\ HasBracket(ev_tokens)) =>
    (ev_error /\ pc = "solved" /\ nums = <<>> /\ spos = 1 /\ result = Zero)

\* a bracket did reach the postfix output
C6_BracketEmitted ==
  /\ pc = "solved"
  /\ ev_error
  /\ HasBracket(ev_tokens)
  /\ CountOf(input, {"open_bracket"}) = CountOf(input, {"close_bracket"})

(***************************************************************************)
(* C7: for a line the tokenizer accepts, when solve() has run the           *)
(* evaluation to its end with the error flag unset, the operand stack holds *)
(* exactly one value and that value is the result.                          *)
(***************************************************************************)
C7_SingleValue ==
  (pc = "solved" /\ ~tk_error /\ ~ev_error) =>
    (Len(nums) = 1 /\ result = nums[1].number)

(***************************************************************************)
(* C9: in to_postfix(), an operator that meets a non-empty stack whose top  *)
(* is an operator binding at least as tightly empties the whole stack onto  *)
(* the output, last in first out, and is then alone on the stack; any other *)
(* operator is pushed and leaves the rest of the stack and the output as    *)
(* they were.                                                               *)
(***************************************************************************)
BindsTighter(a, b) == a.type \in {"op_mul", "op_div"} /\ b.type \in {"op_add", "op_sub"}

C10_BracketOrder ==
  (AfterPostfix /\ ~tk_error /\ ClosesBeforeOpens(tk_tokens)) =>
    (ev_error /\ pc = "solved")

\* such a line, accepted by the tokenizer and through solve()
C10_ClosedFirst ==
  /\ pc = "solved"
  /\ ~tk_error
  /\ tk_tokens # <<>>
  /\ ClosesBeforeOpens(tk_tokens)
  /\ CountOf(tk_tokens, OperatorTypes) > 0

====
